---- MODULE Spec2Model ----
(***************************************************************************)
(* Model of the auto_gpt_planner_plugin record store (tasks and plans      *)
(* tables), the TaskManager and DatabaseManager that operate on it through *)
(* their own SQLAlchemy scoped sessions, and the Planner built on both.    *)
(*                                                                         *)
(* Encodings: Python None of an id is 0 (the store then assigns the id);   *)
(* a Boolean column holds "true", "false" or "null" (Column(Boolean)       *)
(* without default or nullable=False).  A raised exception is recorded in  *)
(* last.outcome; "ok" is a normal return.                                  *)
(***************************************************************************)
EXTENDS Integers, Sequences, FiniteSets, TLC

\* ---------------------------------------------------------------- bounds
MaxId == 2
MaxPlanId == 1
MaxPriority == 2
MaxGoals == 1
MaxPlanLen == 1

None == 0
Descriptions == {"a", "b"}
Goals == {"g1", "g2"}
Bool3 == {"true", "false", "null"}
TaskIds == 1..MaxId
PlanIds == 1..MaxPlanId
Priorities == 1..MaxPriority
required_keys == {"id", "description", "priority", "completed"}

\* the callers of the claim about two callers of one TaskManager
Callers == {"c1", "c2"}

\* tasks, plans: the tables; session: the state of each manager's session;
\* last: the latest call and what it gave; held: the task each caller got
\* from get_highest_priority_task and has not yet handed to
\* mark_task_complete; overlapped: a caller got a task while another held one.
VARIABLES tasks, plans, session, last, held, overlapped

vars == <<tasks, plans, session, last, held, overlapped>>

caller_vars == <<held, overlapped>>

\* ------------------------------------------------------- inputs (bounded)
\* The tasks given to create_task and update_task: every id, priority and
\* flag; the description goes with the priority ("a" for odd, "b" for even),
\* so that tasks of different priority differ in their text as well.
description_of(priority) == IF priority % 2 = 1 THEN "a" ELSE "b"
TaskArgs == {t \in [id : {None} \cup TaskIds, description : Descriptions,
                    priority : Priorities, completed : Bool3] :
                t.description = description_of(t.priority)}
PlanArgs == [id : {None} \cup PlanIds, goal : Goals, completed : {"false"}]

\* -------------------------------------------------------------- helpers
Min(S) == CHOOSE x \in S : \A y \in S : x <= y
Max(S) == CHOOSE x \in S : \A y \in S : x >= y

RECURSIVE SeqOfIds(_)
SeqOfIds(S) == IF S = {} THEN <<>>
               ELSE LET m == Min(S) IN <<m>> \o SeqOfIds(S \ {m})

\* A row of the tasks table as the mapped Task object (tasks.py 8-14).
Task(tbl, i) == [id |-> i, description |-> tbl[i].description,
                 priority |-> tbl[i].priority, completed |-> tbl[i].completed]

\* A row of the plans table as the mapped Plan object (database.py 16-20).
Plan(tbl, i) == [id |-> i, goal |-> tbl[i].goal, completed |-> tbl[i].completed]

\* INTEGER PRIMARY KEY of a row inserted without id: largest rowid + 1.
NextRowId(tbl) == IF DOMAIN tbl = {} THEN 1 ELSE Max(DOMAIN tbl) + 1

\* INSERT / UPDATE / DELETE of one row.
Put(tbl, i, row) == [j \in DOMAIN tbl \cup {i} |-> IF j = i THEN row ELSE tbl[j]]
Remove(tbl, i) == [j \in DOMAIN tbl \ {i} |-> tbl[j]]

TaskFields(t) == [description |-> t.description, priority |-> t.priority,
                  completed |-> t.completed]
PlanFields(p) == [goal |-> p.goal, completed |-> p.completed]

\* ------------------------------------------------------ session handling
\* A flush or commit that raises leaves the session's transaction inactive
\* until session.rollback() is called; the database itself is unchanged.
flush_failed(s, m) == [s EXCEPT ![m] = "inactive"]
rollback(s, m) == [s EXCEPT ![m] = "active"]

\* What the call returned or raised.
Call(op, arg, outcome, cause, kind, result) ==
    [op |-> op, arg |-> arg, outcome |-> outcome, cause |-> cause,
     kind |-> kind, result |-> result]

Returned(op, arg, kind, result) == Call(op, arg, "ok", "", kind, result)
Raised(op, arg, outcome, cause) == Call(op, arg, outcome, cause, "raised", <<>>)

\* ---------------------------------------------------------------- queries
\* the query without its filter_by(id=task_id): the first row of the table
first_by_id_nofilter(tbl, i) ==
    IF DOMAIN tbl = {} THEN <<>> ELSE <<Task(tbl, Min(DOMAIN tbl))>>

\* session.query(Task).filter_by(id=task_id).first()
first_by_id(tbl, i) == IF i \in DOMAIN tbl THEN <<Task(tbl, i)>> ELSE <<>>

\* session.query(Plan).filter_by(id=plan_id).first()
first_plan_by_id(tbl, i) == IF i \in DOMAIN tbl THEN <<Plan(tbl, i)>> ELSE <<>>

\* session.query(Task).all(), rows in rowid order
all_tasks(tbl) == LET ids == SeqOfIds(DOMAIN tbl)
                  IN [k \in 1..Len(ids) |-> Task(tbl, ids[k])]

\* the query without its filter_by(completed=False)
incomplete_ids_nofilter(tbl) == DOMAIN tbl

\* session.query(Task).filter_by(completed=False): SQL "completed = 0",
\* which a NULL flag does not satisfy.
incomplete_ids(tbl) == {i \in DOMAIN tbl : tbl[i].completed = "false"}

\* session.query(Task).filter_by(completed=False).all()
incomplete_tasks(tbl) == LET ids == SeqOfIds(incomplete_ids(tbl))
                         IN [k \in 1..Len(ids) |-> Task(tbl, ids[k])]

\* ...order_by(Task.priority.desc()).first(): any row of greatest priority
\* (SQL leaves the order among equal priorities open).
highest_priority_ids(tbl) ==
    {i \in incomplete_ids(tbl) :
        \A j \in incomplete_ids(tbl) : tbl[i].priority >= tbl[j].priority}

\* session.query(Plan).filter_by(goal=goal): the rows .first() may return.
plan_ids_by_goal(tbl, goal) == {i \in DOMAIN tbl : tbl[i].goal = goal}

Init ==
    /\ tasks = <<>>
    /\ plans = <<>>
    /\ session = [tm |-> "active", dm |-> "active"]
    /\ last = Returned("__init__", None, "none", <<>>)
    /\ held = [c \in Callers |-> None]
    /\ overlapped = FALSE

\* ------------------------------------------------------------ TaskManager
\* a create_task that replaces the row of a key already stored
TaskManager_create_task_replace(task, fail) ==
    LET i == IF task.id = None THEN NextRowId(tasks) ELSE task.id IN
    /\ i \in TaskIds
    /\ session.tm = "active"
    /\ IF fail
       THEN /\ session' = rollback(flush_failed(session, "tm"), "tm")
            /\ last' = Raised("TaskManager.create_task", i, "StorageError",
                              "OperationalError")
            /\ UNCHANGED <<tasks, plans>>
       ELSE /\ tasks' = Put(tasks, i, TaskFields(task))
            /\ last' = Returned("TaskManager.create_task", i, "none", <<>>)
            /\ UNCHANGED <<plans, session>>

\* session.add(task); session.commit(); on failure rollback and re-raise.
\* last.arg is the primary key the row got (task.id after the commit).
TaskManager_create_task(task, fail) ==
    LET i == IF task.id = None THEN NextRowId(tasks) ELSE task.id IN
    /\ i \in TaskIds
    /\ session.tm = "active"
    /\ IF fail \/ i \in DOMAIN tasks
       THEN /\ session' = rollback(flush_failed(session, "tm"), "tm")
            /\ last' = Raised("TaskManager.create_task", i, "StorageError",
                              IF i \in DOMAIN tasks THEN "IntegrityError"
                                                    ELSE "OperationalError")
            /\ UNCHANGED <<tasks, plans>>
       ELSE /\ tasks' = Put(tasks, i, TaskFields(task))
            /\ last' = Returned("TaskManager.create_task", i, "none", <<>>)
            /\ UNCHANGED <<plans, session>>

\* what get_task(task_id) returns or raises on the table tbl
get_task(tbl, task_id) ==
    LET task == first_by_id(tbl, task_id) IN
    IF task = <<>>
    THEN Raised("TaskManager.get_task", task_id, "NotFound", "")
    ELSE Returned("TaskManager.get_task", task_id, "record", task)

TaskManager_get_task(task_id) ==
    /\ session.tm = "active"
    /\ last' = get_task(tasks, task_id)
    /\ UNCHANGED <<tasks, plans, session>>

\* session.merge(task): INSERT when the key is absent or None, else UPDATE.
TaskManager_update_task(task, fail) ==
    LET i == IF task.id = None THEN NextRowId(tasks) ELSE task.id IN
    /\ i \in TaskIds
    /\ session.tm = "active"
    /\ IF fail
       THEN /\ session' = rollback(flush_failed(session, "tm"), "tm")
            /\ last' = Raised("TaskManager.update_task", i, "StorageError",
                              "OperationalError")
            /\ UNCHANGED <<tasks, plans>>
       ELSE /\ tasks' = Put(tasks, i, TaskFields(task))
            /\ last' = Returned("TaskManager.update_task", i, "none", <<>>)
            /\ UNCHANGED <<plans, session>>

TaskManager_delete_task(task_id, fail) ==
    /\ session.tm = "active"
    /\ IF first_by_id(tasks, task_id) = <<>>
       THEN /\ last' = Raised("TaskManager.delete_task", task_id, "NotFound", "")
            /\ UNCHANGED <<tasks, plans, session>>
       ELSE IF fail
       THEN /\ session' = rollback(flush_failed(session, "tm"), "tm")
            /\ last' = Raised("TaskManager.delete_task", task_id, "StorageError",
                              "OperationalError")
            /\ UNCHANGED <<tasks, plans>>
       ELSE /\ tasks' = Remove(tasks, task_id)
            /\ last' = Returned("TaskManager.delete_task", task_id, "none", <<>>)
            /\ UNCHANGED <<plans, session>>

TaskManager_get_all_tasks ==
    /\ session.tm = "active"
    /\ last' = Returned("TaskManager.get_all_tasks", None, "list", all_tasks(tasks))
    /\ UNCHANGED <<tasks, plans, session>>

TaskManager_get_incomplete_tasks ==
    /\ session.tm = "active"
    /\ last' = Returned("TaskManager.get_incomplete_tasks", None, "list",
                        incomplete_tasks(tasks))
    /\ UNCHANGED <<tasks, plans, session>>

TaskManager_mark_task_complete(task_id, fail) ==
    /\ session.tm = "active"
    /\ IF first_by_id(tasks, task_id) = <<>>
       THEN /\ last' = Raised("TaskManager.mark_task_complete", task_id,
                              "NotFound", "")
            /\ UNCHANGED <<tasks, plans, session>>
       ELSE IF fail
       THEN /\ session' = rollback(flush_failed(session, "tm"), "tm")
            /\ last' = Raised("TaskManager.mark_task_complete", task_id,
                              "StorageError", "OperationalError")
            /\ UNCHANGED <<tasks, plans>>
       ELSE /\ tasks' = [tasks EXCEPT ![task_id].completed = "true"]
            /\ last' = Returned("TaskManager.mark_task_complete", task_id,
                                "none", <<>>)
            /\ UNCHANGED <<plans, session>>

TaskManager_get_highest_priority_task ==
    /\ session.tm = "active"
    /\ IF highest_priority_ids(tasks) = {}
       THEN last' = Raised("TaskManager.get_highest_priority_task", None,
                           "NotFound", "")
       ELSE \E i \in highest_priority_ids(tasks) :
               last' = Returned("TaskManager.get_highest_priority_task", None,
                                "record", <<Task(tasks, i)>>)
    /\ UNCHANGED <<tasks, plans, session>>

\* filter_by(goal_id=goal_id): Task maps no goal_id column, so building the
\* query raises before any row is read or written.
TaskManager_complete_tasks_for_goal(goal_id) ==
    /\ session.tm = "active"
    /\ last' = Raised("TaskManager.complete_tasks_for_goal", goal_id,
                      "InvalidRequestError", "")
    /\ UNCHANGED <<tasks, plans, session>>

\* -------------------------------------------------------- DatabaseManager
\* None of the handlers below calls session.rollback(): a failed commit
\* leaves the DatabaseManager's session inactive, and every later statement
\* on it raises, which each handler re-raises as "Failed to ...".
DatabaseManager_create_task(task, fail) ==
    LET i == IF task.id = None THEN NextRowId(tasks) ELSE task.id IN
    /\ i \in TaskIds
    /\ IF session.dm # "active"
       THEN /\ last' = Raised("DatabaseManager.create_task", i, "StorageError",
                              "PendingRollbackError")
            /\ UNCHANGED <<tasks, plans, session>>
       ELSE IF fail \/ i \in DOMAIN tasks
       THEN /\ session' = flush_failed(session, "dm")
            /\ last' = Raised("DatabaseManager.create_task", i, "StorageError",
                              IF i \in DOMAIN tasks THEN "IntegrityError"
                                                    ELSE "OperationalError")
            /\ UNCHANGED <<tasks, plans>>
       ELSE /\ tasks' = Put(tasks, i, TaskFields(task))
            /\ last' = Returned("DatabaseManager.create_task", i, "none", <<>>)
            /\ UNCHANGED <<plans, session>>

\* get_task raising for a missing row inside its try block, so that the
\* missing row is re-raised as "Failed to get task"
DatabaseManager_get_task_conflated(task_id) ==
    /\ IF session.dm # "active"
       THEN last' = Raised("DatabaseManager.get_task", task_id, "StorageError",
                           "PendingRollbackError")
       ELSE LET task == first_by_id(tasks, task_id) IN
            IF task = <<>>
            THEN last' = Raised("DatabaseManager.get_task", task_id,
                                "StorageError", "NotFound")
            ELSE last' = Returned("DatabaseManager.get_task", task_id, "record", task)
    /\ UNCHANGED <<tasks, plans, session>>

\* returns the row or None; a failing query is re-raised
DatabaseManager_get_task(task_id) ==
    /\ IF session.dm # "active"
       THEN last' = Raised("DatabaseManager.get_task", task_id, "StorageError",
                           "PendingRollbackError")
       ELSE LET task == first_by_id(tasks, task_id) IN
            IF task = <<>>
            THEN last' = Returned("DatabaseManager.get_task", task_id, "none", <<>>)
            ELSE last' = Returned("DatabaseManager.get_task", task_id, "record", task)
    /\ UNCHANGED <<tasks, plans, session>>

DatabaseManager_update_task(task, fail) ==
    LET i == IF task.id = None THEN NextRowId(tasks) ELSE task.id IN
    /\ i \in TaskIds
    /\ IF session.dm # "active"
       THEN /\ last' = Raised("DatabaseManager.update_task", i, "StorageError",
                              "PendingRollbackError")
            /\ UNCHANGED <<tasks, plans, session>>
       ELSE IF fail
       THEN /\ session' = flush_failed(session, "dm")
            /\ last' = Raised("DatabaseManager.update_task", i, "StorageError",
                              "OperationalError")
            /\ UNCHANGED <<tasks, plans>>
       ELSE /\ tasks' = Put(tasks, i, TaskFields(task))
            /\ last' = Returned("DatabaseManager.update_task", i, "none", <<>>)
            /\ UNCHANGED <<plans, session>>

\* session.delete(None) raises for a missing row (no check for None)
DatabaseManager_delete_task(task_id, fail) ==
    /\ IF session.dm # "active"
       THEN /\ last' = Raised("DatabaseManager.delete_task", task_id,
                              "StorageError", "PendingRollbackError")
            /\ UNCHANGED <<tasks, plans, session>>
       ELSE IF first_by_id(tasks, task_id) = <<>>
       THEN /\ last' = Raised("DatabaseManager.delete_task", task_id,
                              "StorageError", "UnmappedInstanceError")
            /\ UNCHANGED <<tasks, plans, session>>
       ELSE IF fail
       THEN /\ session' = flush_failed(session, "dm")
            /\ last' = Raised("DatabaseManager.delete_task", task_id,
                              "StorageError", "OperationalError")
            /\ UNCHANGED <<tasks, plans>>
       ELSE /\ tasks' = Remove(tasks, task_id)
            /\ last' = Returned("DatabaseManager.delete_task", task_id, "none", <<>>)
            /\ UNCHANGED <<plans, session>>

DatabaseManager_create_plan(plan, fail) ==
    LET i == IF plan.id = None THEN NextRowId(plans) ELSE plan.id IN
    /\ i \in PlanIds
    /\ IF session.dm # "active"
       THEN /\ last' = Raised("DatabaseManager.create_plan", i, "StorageError",
                              "PendingRollbackError")
            /\ UNCHANGED <<tasks, plans, session>>
       ELSE IF fail \/ i \in DOMAIN plans
       THEN /\ session' = flush_failed(session, "dm")
            /\ last' = Raised("DatabaseManager.create_plan", i, "StorageError",
                              IF i \in DOMAIN plans THEN "IntegrityError"
                                                    ELSE "OperationalError")
            /\ UNCHANGED <<tasks, plans>>
       ELSE /\ plans' = Put(plans, i, PlanFields(plan))
            /\ last' = Returned("DatabaseManager.create_plan", i, "none", <<>>)
            /\ UNCHANGED <<tasks, session>>

DatabaseManager_get_plan(plan_id) ==
    /\ IF session.dm # "active"
       THEN last' = Raised("DatabaseManager.get_plan", plan_id, "StorageError",
                           "PendingRollbackError")
       ELSE LET plan == first_plan_by_id(plans, plan_id) IN
            IF plan = <<>>
            THEN last' = Returned("DatabaseManager.get_plan", plan_id, "none", <<>>)
            ELSE last' = Returned("DatabaseManager.get_plan", plan_id, "record", plan)
    /\ UNCHANGED <<tasks, plans, session>>

DatabaseManager_update_plan(plan, fail) ==
    LET i == IF plan.id = None THEN NextRowId(plans) ELSE plan.id IN
    /\ i \in PlanIds
    /\ IF session.dm # "active"
       THEN /\ last' = Raised("DatabaseManager.update_plan", i, "StorageError",
                              "PendingRollbackError")
            /\ UNCHANGED <<tasks, plans, session>>
       ELSE IF fail
       THEN /\ session' = flush_failed(session, "dm")
            /\ last' = Raised("DatabaseManager.update_plan", i, "StorageError",
                              "OperationalError")
            /\ UNCHANGED <<tasks, plans>>
       ELSE /\ plans' = Put(plans, i, PlanFields(plan))
            /\ last' = Returned("DatabaseManager.update_plan", i, "none", <<>>)
            /\ UNCHANGED <<tasks, session>>

\* "if plan:" -- a missing row is skipped without error
DatabaseManager_delete_plan(plan_id, fail) ==
    /\ IF session.dm # "active"
       THEN /\ last' = Raised("DatabaseManager.delete_plan", plan_id,
                              "StorageError", "PendingRollbackError")
            /\ UNCHANGED <<tasks, plans, session>>
       ELSE IF first_plan_by_id(plans, plan_id) = <<>>
       THEN /\ last' = Returned("DatabaseManager.delete_plan", plan_id, "none", <<>>)
            /\ UNCHANGED <<tasks, plans, session>>
       ELSE IF fail
       THEN /\ session' = flush_failed(session, "dm")
            /\ last' = Raised("DatabaseManager.delete_plan", plan_id,
                              "StorageError", "OperationalError")
            /\ UNCHANGED <<tasks, plans>>
       ELSE /\ plans' = Remove(plans, plan_id)
            /\ last' = Returned("DatabaseManager.delete_plan", plan_id, "none", <<>>)
            /\ UNCHANGED <<tasks, session>>

\* "if task:" -- a missing row is skipped without error
DatabaseManager_mark_task_complete(task_id, fail) ==
    /\ IF session.dm # "active"
       THEN /\ last' = Raised("DatabaseManager.mark_task_complete", task_id,
                              "StorageError", "PendingRollbackError")
            /\ UNCHANGED <<tasks, plans, session>>
       ELSE IF first_by_id(tasks, task_id) = <<>>
       THEN /\ last' = Returned("DatabaseManager.mark_task_complete", task_id,
                                "none", <<>>)
            /\ UNCHANGED <<tasks, plans, session>>
       ELSE IF fail
       THEN /\ session' = flush_failed(session, "dm")
            /\ last' = Raised("DatabaseManager.mark_task_complete", task_id,
                              "StorageError", "OperationalError")
            /\ UNCHANGED <<tasks, plans>>
       ELSE /\ tasks' = [tasks EXCEPT ![task_id].completed = "true"]
            /\ last' = Returned("DatabaseManager.mark_task_complete", task_id,
                                "none", <<>>)
            /\ UNCHANGED <<plans, session>>

\* The body of DatabaseManager.mark_goal_complete as a function of the store:
\* what it leaves in plans and session and what it raises; i is the row
\* .first() returned (None when no plan has the goal).  It has no return
\* statement, so a normal return yields None.
mark_goal_complete(goal, i, fail) ==
    IF session.dm # "active"
    THEN [plans |-> plans, session |-> session, outcome |-> "StorageError",
          cause |-> "PendingRollbackError"]
    ELSE IF i = None
    THEN [plans |-> plans, session |-> session, outcome |-> "ok", cause |-> ""]
    ELSE IF fail
    THEN [plans |-> plans, session |-> flush_failed(session, "dm"),
          outcome |-> "StorageError", cause |-> "OperationalError"]
    ELSE [plans |-> [plans EXCEPT ![i].completed = "true"], session |-> session,
          outcome |-> "ok", cause |-> ""]

\* the rows .first() may return for the goal; None when there is none
first_by_goal(goal) ==
    IF plan_ids_by_goal(plans, goal) = {} THEN {None}
    ELSE plan_ids_by_goal(plans, goal)

DatabaseManager_mark_goal_complete(goal, fail) ==
    \E i \in first_by_goal(goal) :
       LET r == mark_goal_complete(goal, i, fail) IN
       /\ plans' = r.plans
       /\ session' = r.session
       /\ last' = Call("DatabaseManager.mark_goal_complete", goal, r.outcome,
                       r.cause, IF r.outcome = "ok" THEN "none" ELSE "raised", <<>>)
       /\ UNCHANGED tasks

\* The body of DatabaseManager.update_goals: filter_by(plan_id=plan.id) names
\* a column Task does not map, so the first plan of the loop raises; with no
\* plan the loop is skipped and the empty transaction commits.
update_goals ==
    IF session.dm # "active"
    THEN [outcome |-> "StorageError", cause |-> "PendingRollbackError"]
    ELSE IF DOMAIN plans # {}
    THEN [outcome |-> "StorageError", cause |-> "InvalidRequestError"]
    ELSE [outcome |-> "ok", cause |-> ""]

DatabaseManager_update_goals ==
    /\ last' = Call("DatabaseManager.update_goals", None, update_goals.outcome,
                    update_goals.cause,
                    IF update_goals.outcome = "ok" THEN "none" ELSE "raised", <<>>)
    /\ UNCHANGED <<tasks, plans, session>>

\* ---------------------------------------------------------------- Planner
\* the box ticked for every flag that is not None
checklist_not_none(task_list) ==
    [k \in 1..Len(task_list) |->
        <<IF task_list[k].completed # "null" THEN "[x]" ELSE "[ ]",
          task_list[k].description>>]

\* The checklist and goal lines of the prompt text; a line of the goals
\* section is <<index, goal>>, a line of the tasks section <<box, description>>
\* ("[x]" if task.completed is truthy, else "[ ]").
checklist(task_list) ==
    [k \in 1..Len(task_list) |->
        <<IF task_list[k].completed = "true" THEN "[x]" ELSE "[ ]",
          task_list[k].description>>]

plan_prompt(goals, task_list) ==
    [goals |-> [k \in 1..Len(goals) |-> <<k, goals[k]>>],
     tasks |-> checklist(task_list)]

\* goals is [is_list, items]; the tasks are read through the TaskManager on
\* every call.
Planner_construct_plan_prompt(goals) ==
    /\ session.tm = "active"
    /\ IF ~goals.is_list
       THEN last' = Raised("Planner.construct_plan_prompt", goals, "TypeError", "")
       ELSE last' = Returned("Planner.construct_plan_prompt", goals, "text",
                             <<plan_prompt(goals.items, all_tasks(tasks))>>)
    /\ UNCHANGED <<tasks, plans, session>>

\* The class body defines generate_plan twice; the name is bound to the
\* second definition (no parameter, calls self.planner, which a Planner does
\* not have).  args is the tuple of positional arguments of the call.
Planner_generate_plan(args) ==
    /\ IF Len(args) # 0
       THEN last' = Raised("Planner.generate_plan", args, "TypeError", "")
       ELSE last' = Raised("Planner.generate_plan", args, "Exception",
                           "AttributeError")
    /\ UNCHANGED <<tasks, plans, session>>

\* Likewise generate_tasks is bound to its second definition.
Planner_generate_tasks(args) ==
    /\ IF Len(args) # 0
       THEN last' = Raised("Planner.generate_tasks", args, "TypeError", "")
       ELSE last' = Raised("Planner.generate_tasks", args, "Exception",
                           "AttributeError")
    /\ UNCHANGED <<tasks, plans, session>>

\* goal is [is_str, text]; TaskManager has no get_tasks_for_goal.
Planner_complete_tasks_for_goal(goal) ==
    /\ IF ~goal.is_str
       THEN last' = Raised("Planner.complete_tasks_for_goal", goal, "TypeError", "")
       ELSE last' = Raised("Planner.complete_tasks_for_goal", goal,
                           "AttributeError", "")
    /\ UNCHANGED <<tasks, plans, session>>

\* a mark_goal_complete that hands any goal to the DatabaseManager
Planner_mark_goal_complete_unchecked(goal, fail) ==
    \E i \in first_by_goal(goal.text) :
       LET r == mark_goal_complete(goal.text, i, fail) IN
       /\ plans' = r.plans
       /\ session' = r.session
       /\ last' = IF r.outcome = "ok"
                  THEN Raised("Planner.mark_goal_complete", goal, "Exception", "")
                  ELSE Raised("Planner.mark_goal_complete", goal,
                              r.outcome, r.cause)
       /\ UNCHANGED tasks

\* DatabaseManager.mark_goal_complete returns None, so "if result is None"
\* raises after every call that did not raise itself.
Planner_mark_goal_complete(goal, fail) ==
    IF ~goal.is_str
    THEN /\ last' = Raised("Planner.mark_goal_complete", goal, "TypeError", "")
         /\ UNCHANGED <<tasks, plans, session>>
    ELSE \E i \in first_by_goal(goal.text) :
            LET r == mark_goal_complete(goal.text, i, fail) IN
            /\ plans' = r.plans
            /\ session' = r.session
            /\ last' = IF r.outcome = "ok"
                       THEN Raised("Planner.mark_goal_complete", goal,
                                   "Exception", "")
                       ELSE Raised("Planner.mark_goal_complete", goal,
                                   r.outcome, r.cause)
            /\ UNCHANGED tasks

\* DatabaseManager.update_goals returns None as well.
Planner_update_goals ==
    /\ last' = IF update_goals.outcome = "ok"
               THEN Raised("Planner.update_goals", None, "Exception", "")
               ELSE Raised("Planner.update_goals", None, update_goals.outcome,
                           update_goals.cause)
    /\ UNCHANGED <<tasks, plans, session>>

\* ------------------------------------------------------- inputs of the calls
RECURSIVE SeqsUpTo(_, _)
SeqsUpTo(S, n) == IF n = 0 THEN {<<>>}
                  ELSE LET shorter == SeqsUpTo(S, n - 1)
                       IN shorter \cup {Append(q, x) : q \in shorter, x \in S}

GoalsArgs == {[is_list |-> TRUE, items |-> q] : q \in SeqsUpTo(Goals, MaxGoals)}
             \cup {[is_list |-> FALSE, items |-> <<>>]}

GoalArgs == {[is_str |-> TRUE, text |-> g] : g \in Goals}
            \cup {[is_str |-> FALSE, text |-> ""]}

\* a task specification is given by the set of keys it has
TaskSpecs == {required_keys, {"description"}, required_keys \ {"completed"}}
PlanLists == SeqsUpTo(TaskSpecs, MaxPlanLen)
PlanCallArgs == {<<>>} \cup {<<plan>> : plan \in PlanLists}
GoalsCallArgs == {<<>>} \cup {<<goals>> : goals \in GoalsArgs}

\* tasks and plans of the specification of both managers
StoreTaskArgs == [id : {None} \cup TaskIds, description : {"a"},
                  priority : {1}, completed : {"false"}]

\* ------------------------------------------------- AutoGPTPlannerPlugin
\* what the host hands to the hooks
Prompts == {"p1", "p2"}
Responses == {"r1", "r2"}
Messages == {<<>>, <<"r1">>}
Commands == {<<"c1", "r1">>, <<"c2", "r2">>}

\* A call of the body of post_prompt, in the order of the program text; the
\* loop runs over the rows get_all_tasks returned.
step(call, task_id) == [call |-> call, task_id |-> task_id]

RECURSIVE loop_steps(_)
loop_steps(task_list) ==
    IF task_list = <<>> THEN <<>>
    ELSE <<step("execute_task", Head(task_list).id),
           step("mark_task_complete", Head(task_list).id),
           step("get_task", Head(task_list).id)>> \o loop_steps(Tail(task_list))

post_prompt_steps(task_list) ==
    <<step("start_planning_cycle", None), step("generate_plan", None),
      step("generate_tasks", None), step("get_all_tasks", None)>>
    \o loop_steps(task_list)
    \o <<step("update_plan", None), step("get_plan", None),
         step("get_tasks", None)>>

\* What a call of the body does.  The class AutoGPTPlannerPlugin defines none
\* of start_planning_cycle, generate_plan, generate_tasks, execute_task,
\* mark_task_complete, get_task, update_plan, get_plan, get_tasks (they are
\* methods of Planner), and DatabaseManager defines no get_all_tasks: each
\* call raises AttributeError at the attribute lookup.
step_outcome(s) == "AttributeError"

\* a try block that went on after a failed call
RECURSIVE run_steps_continue(_)
run_steps_continue(steps) ==
    IF steps = <<>> THEN <<>>
    ELSE <<[call |-> Head(steps).call, task_id |-> Head(steps).task_id,
            outcome |-> step_outcome(Head(steps))]>>
         \o run_steps_continue(Tail(steps))

\* The calls the try block starts, each with its outcome: the block is left
\* at the first call that raises.
RECURSIVE run_steps(_)
run_steps(steps) ==
    IF steps = <<>> THEN <<>>
    ELSE LET o == step_outcome(Head(steps))
             started == [call |-> Head(steps).call,
                         task_id |-> Head(steps).task_id, outcome |-> o]
         IN IF o # "ok" THEN <<started>>
            ELSE <<started>> \o run_steps(Tail(steps))

\* what print(str(e)) wrote: the error of the call that raised, "" if none did
printed(started) ==
    IF started # <<>> /\ started[Len(started)].outcome # "ok"
    THEN started[Len(started)].outcome ELSE ""

\* a post_prompt without the except clause
AutoGPTPlannerPlugin_post_prompt_uncaught(prompt) ==
    LET started == run_steps(post_prompt_steps(all_tasks(tasks))) IN
    /\ last' = IF printed(started) # ""
               THEN Raised("AutoGPTPlannerPlugin.post_prompt", prompt,
                           printed(started), "")
               ELSE Returned("AutoGPTPlannerPlugin.post_prompt", prompt, "record",
                             <<[returned |-> prompt, started |-> started,
                                printed |-> ""]>>)
    /\ UNCHANGED <<tasks, plans, session>>

\* post_prompt: the try block, except Exception: print(str(e)), return prompt.
\* No call of the block gets as far as the store.
AutoGPTPlannerPlugin_post_prompt(prompt) ==
    LET started == run_steps(post_prompt_steps(all_tasks(tasks))) IN
    /\ last' = Returned("AutoGPTPlannerPlugin.post_prompt", prompt, "record",
                        <<[returned |-> prompt, started |-> started,
                           printed |-> printed(started)]>>)
    /\ UNCHANGED <<tasks, plans, session>>

\* A handler whose body is a docstring or pass: the call returns None.
no_op_handler(op, arg) ==
    /\ last' = Returned(op, arg, "none", <<>>)
    /\ UNCHANGED <<tasks, plans, session>>

AutoGPTPlannerPlugin_on_response(response) ==
    no_op_handler("AutoGPTPlannerPlugin.on_response", response)

AutoGPTPlannerPlugin_post_planning(response) ==
    no_op_handler("AutoGPTPlannerPlugin.post_planning", response)

AutoGPTPlannerPlugin_pre_instruction(messages) ==
    no_op_handler("AutoGPTPlannerPlugin.pre_instruction", messages)

AutoGPTPlannerPlugin_post_instruction(response) ==
    no_op_handler("AutoGPTPlannerPlugin.post_instruction", response)

AutoGPTPlannerPlugin_pre_command(command_name, arguments) ==
    no_op_handler("AutoGPTPlannerPlugin.pre_command", <<command_name, arguments>>)

AutoGPTPlannerPlugin_post_command(command_name, response) ==
    no_op_handler("AutoGPTPlannerPlugin.post_command", <<command_name, response>>)

AutoGPTPlannerPlugin_user_input(user_input) ==
    no_op_handler("AutoGPTPlannerPlugin.user_input", user_input)

\* ---------------------------------------------------- two callers, one store
\* A caller asks for the task of highest priority; each call of the
\* TaskManager is a transaction of its own, and nothing is kept locked
\* between this call and the caller's mark_task_complete.
Caller_get_highest_priority_task(c) ==
    /\ held[c] = None
    /\ TaskManager_get_highest_priority_task
    /\ held' = [held EXCEPT ![c] = IF last'.outcome = "ok"
                                   THEN last'.result[1].id ELSE None]
    /\ overlapped' = (overlapped \/ (/\ last'.outcome = "ok"
                                     /\ \E d \in Callers \ {c} : held[d] # None))

\* The caller marks the task it got; when no caller holds a task any more,
\* a new period without overlap begins.
Caller_mark_task_complete(c, fail) ==
    /\ held[c] # None
    /\ TaskManager_mark_task_complete(held[c], fail)
    /\ held' = [held EXCEPT ![c] = None]
    /\ overlapped' = (overlapped /\ \E d \in Callers \ {c} : held[d] # None)

\* ---------------------------------------------------------- specifications
\* The task store as the TaskManager and the Planner's prompt see it.
Next ==
    \/ \E task \in TaskArgs, fail \in BOOLEAN : TaskManager_create_task(task, fail) /\ UNCHANGED caller_vars
    \/ \E task_id \in TaskIds : TaskManager_get_task(task_id) /\ UNCHANGED caller_vars
    \/ \E task \in TaskArgs, fail \in BOOLEAN : TaskManager_update_task(task, fail) /\ UNCHANGED caller_vars
    \/ \E task_id \in TaskIds, fail \in BOOLEAN : TaskManager_delete_task(task_id, fail) /\ UNCHANGED caller_vars
    \/ TaskManager_get_all_tasks /\ UNCHANGED caller_vars
    \/ TaskManager_get_incomplete_tasks /\ UNCHANGED caller_vars
    \/ \E task_id \in TaskIds, fail \in BOOLEAN : TaskManager_mark_task_complete(task_id, fail) /\ UNCHANGED caller_vars
    \/ TaskManager_get_highest_priority_task /\ UNCHANGED caller_vars
    \/ \E goal_id \in PlanIds : TaskManager_complete_tasks_for_goal(goal_id) /\ UNCHANGED caller_vars
    \/ \E goals \in GoalsArgs : Planner_construct_plan_prompt(goals) /\ UNCHANGED caller_vars

Spec == Init /\ [][Next]_vars

\* Both managers and the Planner over tasks and plans.
NextStore ==
    \/ \E task \in StoreTaskArgs, fail \in BOOLEAN : TaskManager_create_task(task, fail) /\ UNCHANGED caller_vars
    \/ \E task_id \in TaskIds : TaskManager_get_task(task_id) /\ UNCHANGED caller_vars
    \/ \E task \in StoreTaskArgs, fail \in BOOLEAN : TaskManager_update_task(task, fail) /\ UNCHANGED caller_vars
    \/ \E task_id \in TaskIds, fail \in BOOLEAN : TaskManager_delete_task(task_id, fail) /\ UNCHANGED caller_vars
    \/ \E task_id \in TaskIds, fail \in BOOLEAN : TaskManager_mark_task_complete(task_id, fail) /\ UNCHANGED caller_vars
    \/ \E goal_id \in PlanIds : TaskManager_complete_tasks_for_goal(goal_id) /\ UNCHANGED caller_vars
    \/ \E task \in StoreTaskArgs, fail \in BOOLEAN : DatabaseManager_create_task(task, fail) /\ UNCHANGED caller_vars
    \/ \E task_id \in TaskIds : DatabaseManager_get_task(task_id) /\ UNCHANGED caller_vars
    \/ \E task \in StoreTaskArgs, fail \in BOOLEAN : DatabaseManager_update_task(task, fail) /\ UNCHANGED caller_vars
    \/ \E task_id \in TaskIds, fail \in BOOLEAN : DatabaseManager_delete_task(task_id, fail) /\ UNCHANGED caller_vars
    \/ \E plan \in PlanArgs, fail \in BOOLEAN : DatabaseManager_create_plan(plan, fail) /\ UNCHANGED caller_vars
    \/ \E plan_id \in PlanIds : DatabaseManager_get_plan(plan_id) /\ UNCHANGED caller_vars
    \/ \E plan \in PlanArgs, fail \in BOOLEAN : DatabaseManager_update_plan(plan, fail) /\ UNCHANGED caller_vars
    \/ \E plan_id \in PlanIds, fail \in BOOLEAN : DatabaseManager_delete_plan(plan_id, fail) /\ UNCHANGED caller_vars
    \/ \E task_id \in TaskIds, fail \in BOOLEAN : DatabaseManager_mark_task_complete(task_id, fail) /\ UNCHANGED caller_vars
    \/ \E goal \in Goals, fail \in BOOLEAN : DatabaseManager_mark_goal_complete(goal, fail) /\ UNCHANGED caller_vars
    \/ DatabaseManager_update_goals /\ UNCHANGED caller_vars
    \/ \E goal \in GoalArgs : Planner_complete_tasks_for_goal(goal) /\ UNCHANGED caller_vars
    \/ \E goal \in GoalArgs, fail \in BOOLEAN : Planner_mark_goal_complete(goal, fail) /\ UNCHANGED caller_vars
    \/ Planner_update_goals /\ UNCHANGED caller_vars
    \/ \E args \in GoalsCallArgs : Planner_generate_plan(args) /\ UNCHANGED caller_vars
    \/ \E args \in PlanCallArgs : Planner_generate_tasks(args) /\ UNCHANGED caller_vars
    \/ \E goals \in {g \in GoalsArgs : g.items = <<>>} : Planner_construct_plan_prompt(goals) /\ UNCHANGED caller_vars

SpecStore == Init /\ [][NextStore]_vars

\* The hooks of the plugin over the task store.
NextPlugin ==
    \/ \E task \in StoreTaskArgs, fail \in BOOLEAN : TaskManager_create_task(task, fail) /\ UNCHANGED caller_vars
    \/ \E task_id \in TaskIds, fail \in BOOLEAN : TaskManager_mark_task_complete(task_id, fail) /\ UNCHANGED caller_vars
    \/ \E prompt \in Prompts : AutoGPTPlannerPlugin_post_prompt(prompt) /\ UNCHANGED caller_vars
    \/ \E response \in Responses : AutoGPTPlannerPlugin_on_response(response) /\ UNCHANGED caller_vars
    \/ \E response \in Responses : AutoGPTPlannerPlugin_post_planning(response) /\ UNCHANGED caller_vars
    \/ \E messages \in Messages : AutoGPTPlannerPlugin_pre_instruction(messages) /\ UNCHANGED caller_vars
    \/ \E response \in Responses : AutoGPTPlannerPlugin_post_instruction(response) /\ UNCHANGED caller_vars
    \/ \E c \in Commands : AutoGPTPlannerPlugin_pre_command(c[1], c[2]) /\ UNCHANGED caller_vars
    \/ \E c \in Commands : AutoGPTPlannerPlugin_post_command(c[1], c[2]) /\ UNCHANGED caller_vars
    \/ \E user_input \in Responses : AutoGPTPlannerPlugin_user_input(user_input) /\ UNCHANGED caller_vars

SpecPlugin == Init /\ [][NextPlugin]_vars

\* Two callers of one TaskManager, their calls interleaved in any order.
NextCallers ==
    \/ \E task \in StoreTaskArgs, fail \in BOOLEAN : TaskManager_create_task(task, fail) /\ UNCHANGED caller_vars
    \/ \E c \in Callers : Caller_get_highest_priority_task(c)
    \/ \E c \in Callers, fail \in BOOLEAN : Caller_mark_task_complete(c, fail)

SpecCallers == Init /\ [][NextCallers]_vars

\* ------------------------------------------------------------------ claims
\* C1: a task created with create_task and fetched with get_task by the id
\* the store gave it comes back with the id, description, priority and
\* completed it was created with, and creating a task leaves what get_task
\* returns for every task created before it as it was.
C1_RoundTrip ==
    [][(last'.op = "TaskManager.create_task" /\ last'.outcome = "ok") =>
        \A task \in TaskArgs, fail \in BOOLEAN :
           (task.id \in {None, last'.arg} /\ TaskManager_create_task(task, fail)) =>
              LET i == last'.arg IN
              /\ task.id # None => i = task.id
              /\ get_task(tasks', i).outcome = "ok"
              /\ get_task(tasks', i).result =
                    <<[id |-> i, description |-> task.description,
                       priority |-> task.priority, completed |-> task.completed]>>
              /\ \A j \in DOMAIN tasks : get_task(tasks', j) = get_task(tasks, j)
      ]_vars

\* a task was created after another one, the store assigning the second id
C1_Witness ==
    /\ last.op = "TaskManager.create_task"
    /\ last.outcome = "ok"
    /\ last.arg = 2
    /\ DOMAIN tasks = {1, 2}
    /\ tasks[1] # tasks[2]

\* C2: marking a task id that is not in the store complete raises the
\* not-found error, through TaskManager.mark_task_complete and through
\* DatabaseManager.mark_task_complete, and changes no task and no plan.
C2_MarkMissingRaises ==
    [][(last'.op \in {"TaskManager.mark_task_complete",
                      "DatabaseManager.mark_task_complete"}) =>
        \A task_id \in TaskIds, fail \in BOOLEAN :
           ( /\ \/ TaskManager_mark_task_complete(task_id, fail)
                \/ DatabaseManager_mark_task_complete(task_id, fail)
             /\ task_id \notin DOMAIN tasks )
           => (last'.outcome = "NotFound" /\ tasks' = tasks /\ plans' = plans)
      ]_vars

\* C3: when some task is incomplete (not marked complete),
\* get_highest_priority_task returns a stored incomplete task whose priority
\* is at least that of every incomplete task (completed tasks are passed
\* over, whatever their priority).
C3_HighestPriority ==
    (/\ last.op = "TaskManager.get_highest_priority_task"
     /\ \E j \in DOMAIN tasks : tasks[j].completed # "true")
    => /\ last.outcome = "ok"
       /\ last.kind = "record"
       /\ LET t == last.result[1] IN
          /\ t.id \in DOMAIN tasks
          /\ t = Task(tasks, t.id)
          /\ t.completed # "true"
          /\ \A j \in DOMAIN tasks :
                tasks[j].completed # "true" => t.priority >= tasks[j].priority

\* C4: get_incomplete_tasks returns no task whose completed flag is true, and
\* once mark_task_complete(id) has succeeded the list of incomplete tasks has
\* no task with that id.
C4_IncompleteList ==
    /\ [](last.op = "TaskManager.get_incomplete_tasks" =>
            /\ last.outcome = "ok"
            /\ \A k \in 1..Len(last.result) :
                  /\ last.result[k].completed # "true"
                  /\ last.result[k].id \in DOMAIN tasks
                  /\ tasks[last.result[k].id].completed # "true")
    /\ [][(last'.op = "TaskManager.mark_task_complete" /\ last'.outcome = "ok") =>
            \A k \in 1..Len(incomplete_tasks(tasks')) :
               incomplete_tasks(tasks')[k].id # last'.arg]_vars

\* the list leaves out a completed task and returns an incomplete one
C4_Witness ==
    /\ last.op = "TaskManager.get_incomplete_tasks"
    /\ Len(last.result) = 1
    /\ \E i \in DOMAIN tasks : tasks[i].completed = "true"

\* C5: generate_tasks called with an empty sequence returns an empty sequence
\* without error, and called with a sequence that has an item lacking one of
\* id, description, priority, completed it raises the validation error
\* (ValueError) that names the keys.
C5_GenerateTasks ==
    (last.op = "Planner.generate_tasks" /\ Len(last.arg) = 1) =>
       LET plan == last.arg[1] IN
       /\ plan = <<>> => (last.outcome = "ok" /\ last.kind = "list"
                          /\ last.result = <<>>)
       /\ (\E k \in 1..Len(plan) : plan[k] # required_keys)
             => last.outcome = "ValueError"

\* C6: once a plan with goal g and tasks are stored, complete_tasks_for_goal(g)
\* and then mark_goal_complete(g) both return without error.
C6_EndToEnd ==
    (/\ last.op \in {"Planner.complete_tasks_for_goal", "Planner.mark_goal_complete"}
     /\ last.arg.is_str
     /\ plan_ids_by_goal(plans, last.arg.text) # {}
     /\ DOMAIN tasks # {})
    => last.outcome = "ok"

C8_GoalNotFound ==
    /\ (/\ last.op \in {"Planner.mark_goal_complete",
                        "Planner.complete_tasks_for_goal"}
        /\ last.arg.is_str
        /\ plan_ids_by_goal(plans, last.arg.text) = {})
       => last.outcome = "NotFound"
    /\ (/\ last.op = "DatabaseManager.mark_goal_complete"
        /\ plan_ids_by_goal(plans, last.arg) = {})
       => last.outcome = "NotFound"

Mutators ==
    {"TaskManager.create_task", "TaskManager.update_task",
     "TaskManager.delete_task", "DatabaseManager.create_task",
     "DatabaseManager.update_task", "DatabaseManager.delete_task",
     "DatabaseManager.create_plan", "DatabaseManager.update_plan",
     "DatabaseManager.delete_plan"}

\* C9: a create, update or delete that fails raises the storage error with
\* its cause, leaves tasks and plans as they were and leaves its unit of
\* work rolled back, so that the reads that follow are served.
C9_AllOrNothing ==
    [][(last' # last /\ last'.op \in Mutators /\ last'.outcome # "ok"
        /\ last'.outcome # "NotFound") =>
         /\ last'.outcome = "StorageError"
         /\ last'.cause # ""
         /\ tasks' = tasks
         /\ plans' = plans
         /\ session'.tm = "active"
         /\ session'.dm = "active"]_vars

C11_GoalIdNotFound ==
    (/\ last.op = "TaskManager.complete_tasks_for_goal"
     /\ last.arg \notin DOMAIN plans)
    => last.outcome = "NotFound"

\* C12: post_prompt lets no exception out: whichever call of its body
\* raises, the error is caught and printed, and post_prompt returns the
\* prompt it was given.
C12_PostPromptReturnsPrompt ==
    last.op = "AutoGPTPlannerPlugin.post_prompt" =>
       /\ last.outcome = "ok"
       /\ last.kind = "record"
       /\ last.result[1].returned = last.arg
       /\ LET started == last.result[1].started IN
          (\E k \in 1..Len(started) : started[k].outcome # "ok")
             => last.result[1].printed # ""

\* post_prompt returned its prompt after a call of its body had raised, with
\* tasks in the store
C12_Witness ==
    /\ last.op = "AutoGPTPlannerPlugin.post_prompt"
    /\ last.outcome = "ok"
    /\ last.result[1].returned = last.arg
    /\ last.result[1].printed = "AttributeError"
    /\ DOMAIN tasks # {}

C14_NoOpReturnsInput ==
    last.op \in {"AutoGPTPlannerPlugin.on_response",
                 "AutoGPTPlannerPlugin.post_planning",
                 "AutoGPTPlannerPlugin.pre_instruction",
                 "AutoGPTPlannerPlugin.post_instruction",
                 "AutoGPTPlannerPlugin.pre_command",
                 "AutoGPTPlannerPlugin.post_command",
                 "AutoGPTPlannerPlugin.user_input"}
    => /\ last.outcome = "ok"
       /\ last.kind # "none"
       /\ last.result = <<last.arg>>

\* C15: completed defaults to false: every stored task has a completed flag
\* that is true or false, a task created without a flag is stored with
\* false, and get_incomplete_tasks lists every task not marked complete.
C15_CompletedDefaultsFalse ==
    /\ \A i \in DOMAIN tasks : tasks[i].completed \in {"true", "false"}
    /\ (last.op = "TaskManager.get_incomplete_tasks" /\ last.outcome = "ok") =>
          \A i \in DOMAIN tasks :
             tasks[i].completed # "true" =>
                \E k \in 1..Len(last.result) : last.result[k].id = i

\* C16: get_highest_priority_task raises the not-found error exactly when the
\* store holds no incomplete task (it is empty, or every task in it is
\* completed), and returns a task in every other state.
C16_NotFoundIffNoIncomplete ==
    last.op = "TaskManager.get_highest_priority_task" =>
       IF \A i \in DOMAIN tasks : tasks[i].completed = "true"
       THEN last.outcome = "NotFound"
       ELSE last.outcome = "ok" /\ last.kind = "record"

\* C17: TaskManager.complete_tasks_for_goal marks and commits the tasks of
\* the goal one at a time: a call returns after the last commit, or it raises
\* the storage error of the commit that failed, with the tasks committed
\* before it completed and the others not.
C17_CommitPerTask ==
    last.op = "TaskManager.complete_tasks_for_goal" =>
       \/ last.outcome = "ok"
       \/ last.outcome = "StorageError"

C19_PlansOfCompletedTasks ==
    (/\ last.op \in {"DatabaseManager.update_goals", "Planner.update_goals"}
     /\ session.dm = "active")
    => \A i \in DOMAIN plans : plans[i].completed = "true"

\* C20: the task a caller got from get_highest_priority_task and has not yet
\* marked is still incomplete in the store as long as no other caller held a
\* task at the same time; with two callers active both can hold the same
\* task, and one can hold a task the other has already marked complete.
C20_ExclusiveWhenSerial ==
    \A c \in Callers :
       (held[c] # None /\ ~overlapped) =>
          /\ held[c] \in DOMAIN tasks
          /\ tasks[held[c]].completed = "false"
          /\ \A d \in Callers \ {c} : held[d] # held[c]

\* both callers got the same task before either marked it complete
C20_Witness ==
    /\ held["c1"] # None
    /\ held["c1"] = held["c2"]
    /\ tasks[held["c1"]].completed = "false"

\* C21: completion is monotonic: the completed flag of a task that stays in
\* the store goes from true to another value only in an update_task on that
\* task's id that succeeded, and the value it takes is the one the merged
\* task carried; no create_task, get, mark_task_complete,
\* complete_tasks_for_goal, update_goals or delete_task of another id clears
\* it.
C21_CompletionMonotonic ==
    [][\A i \in DOMAIN tasks :
          (/\ tasks[i].completed = "true"
           /\ i \in DOMAIN tasks'
           /\ tasks'[i].completed # "true")
          => /\ last'.op \in {"TaskManager.update_task",
                              "DatabaseManager.update_task"}
             /\ last'.outcome = "ok"
             /\ last'.arg = i
             /\ \E task \in TaskArgs \cup StoreTaskArgs :
                   /\ task.id = i
                   /\ task.completed = tasks'[i].completed
                   /\ \/ TaskManager_update_task(task, FALSE)
                      \/ DatabaseManager_update_task(task, FALSE)
      ]_vars

\* a completed task is still completed after the task of another id was
\* deleted
C21_Witness ==
    /\ last.op \in {"TaskManager.delete_task", "DatabaseManager.delete_task"}
    /\ last.outcome = "ok"
    /\ \E i \in DOMAIN tasks :
          /\ i # last.arg
          /\ tasks[i].completed = "true"
====
